---------------------------- MODULE Spec2Model ----------------------------
(***************************************************************************)
(* A model of the MIPS pipeline simulator of                               *)
(* src/app/src/context/SimulationContext.tsx.                              *)
(*                                                                         *)
(* Representation.                                                         *)
(*  - An instruction (the code's hex string of 8 hex digits) is a tuple of *)
(*    8 hex digits, most significant first: 0x20080005 is                  *)
(*    <<2,0,0,8,0,0,0,5>>.                                                 *)
(*  - A JavaScript array is a sequence; element k of the array (0-based)   *)
(*    is element k+1 of the sequence.                                      *)
(*  - A JavaScript Record<number, T> is a function whose domain is the set *)
(*    of its keys (0-based instruction indices).                           *)
(*  - A register file is a function from the register names of line 87-96  *)
(*    ("$zero", "$t0", ...) to integers; memory is a function on 0..31.    *)
(*  - null in instructionStages is NULL.                                   *)
(*  - The description text of a HazardInfo is not modelled.                *)
(*  - simulationState is the snapshot held by useState, with every queued  *)
(*    update applied; rendered holds the two toggles of the snapshot the   *)
(*    component last rendered with, which are the values the published     *)
(*    startSimulation callback closes over (lines 862-863, 899-900,        *)
(*    906-910).                                                            *)
(***************************************************************************)
EXTENDS Integers, Sequences, FiniteSets, TLC

VARIABLES simulationState, rendered

vars == <<simulationState, rendered>>

(***************************************************************************)
(* Bounds of the model.                                                    *)
(***************************************************************************)
\* longest program submitted to startSimulation in Spec
MaxProgramLen == 2
\* longest program analysed in SpecHazards
MaxHazardLen == 3
\* longest program analysed in SpecLookback: an instruction with four
\* instructions before it, one more than detectHazards looks back
MaxLookbackLen == 5
\* longest program run in SpecStall: up to three stalling instructions
MaxStallLen == 4
\* longest program run in SpecControl
MaxControlLen == 3
\* longest program run in SpecMemory
MaxMemoryLen == 3
\* longest program run in SpecData
MaxDataLen == 3
\* longest program analysed in SpecImmediate
MaxImmediateLen == 3
\* longest program run in SpecTermination
MaxLoopLen == 3

(***************************************************************************)
(* Program constants.                                                      *)
(***************************************************************************)
STAGE_NAMES == <<"IF", "ID", "EX", "MEM", "WB">>
DEFAULT_STAGE_COUNT == Len(STAGE_NAMES)
\* number of words of memory (initialMemory, and the bounds tests of MEM)
MemoryWords == 32
\* how many previous instructions detectHazards looks back over
Lookback == 3
\* the value of instructionStages for an instruction in no stage (JavaScript null)
NULL == -1

regMap ==
  << "zero", "at", "v0", "v1", "a0", "a1", "a2", "a3",
     "t0", "t1", "t2", "t3", "t4", "t5", "t6", "t7",
     "s0", "s1", "s2", "s3", "s4", "s5", "s6", "s7",
     "t8", "t9", "k0", "k1", "gp", "sp", "fp", "ra" >>

\* `$${regMap[n.toString()]}`: the register name of register number n
RegName(n) == "$" \o regMap[n + 1]

RegisterNames == { RegName(n) : n \in 0..31 }

initialRegisters == [r \in RegisterNames |-> 0]

initialMemory == [a \in 0..(MemoryWords - 1) |-> 0]

(***************************************************************************)
(* parseInstruction: the fields of an instruction word.                    *)
(***************************************************************************)
\* parseInt(hex, 16).toString(2).padStart(32, "0")[position]: the binary
\* digit at position 0..31, the most significant first
BinaryDigit(hex, position) ==
  LET digit == hex[(position \div 4) + 1]
      k     == position % 4
  IN  CASE k = 0 -> digit \div 8
        [] k = 1 -> (digit \div 4) % 2
        [] k = 2 -> (digit \div 2) % 2
        [] k = 3 -> digit % 2

RECURSIVE Field(_, _, _)
\* parseInt(binary.substring(from, to), 2), from and to 0-based, to excluded
Field(hex, from, to) ==
  IF from >= to THEN 0
  ELSE 2 * Field(hex, from, to - 1) + BinaryDigit(hex, to - 1)

LoadOpcodes == {32, 33, 35, 36, 37, 48}
StoreOpcodes == {40, 41, 43, 56}
\* the list of line 192 (its comment names slti and sltiu, the list holds 14 and 15)
ImmediateOpcodes == {8, 9, 12, 13, 14, 15}

parseInstruction(hexInstruction) ==
  LET binary == hexInstruction
      opcode == Field(binary, 0, 6)
      rs     == Field(binary, 6, 11)
      rt     == Field(binary, 11, 16)
  IN  IF opcode = 0
        THEN [rs |-> rs, rt |-> rt, rd |-> Field(binary, 16, 21),
              opcode |-> opcode, funct |-> Field(binary, 26, 32),
              type |-> "R", isLoad |-> FALSE, isStore |-> FALSE]
      ELSE IF opcode = 2 \/ opcode = 3
        THEN [rs |-> rs, rt |-> rt, rd |-> IF opcode = 3 THEN 31 ELSE 0,
              opcode |-> opcode, funct |-> 0,
              type |-> "J", isLoad |-> FALSE, isStore |-> FALSE]
      ELSE [rs |-> rs, rt |-> rt,
            rd |-> IF opcode \in LoadOpcodes THEN rt
                   ELSE IF opcode \in StoreOpcodes THEN 0
                   ELSE IF opcode \in ImmediateOpcodes THEN rt
                   ELSE IF opcode = 15 THEN rt
                   ELSE 0,
            opcode |-> opcode, funct |-> 0, type |-> "I",
            isLoad |-> opcode \in LoadOpcodes,
            isStore |-> (opcode \notin LoadOpcodes) /\ (opcode \in StoreOpcodes)]

\* The instruction words submitted in Spec:
\*   0x21080005 addi $t0, $t0, 5        0x21000005 addi $zero, $t0, 5
\*   0x8D090000 lw $t1, 0($t0)          0x08000004 j 4
Pool ==
  { <<2,1,0,8,0,0,0,5>>, <<2,1,0,0,0,0,0,5>>, <<8,13,0,9,0,0,0,0>>,
    <<0,8,0,0,0,0,0,4>> }

\* The instruction words analysed in SpecHazards:
\*   0x20080005 addi $t0, $zero, 5      0x01084820 add $t1, $t0, $t0
\*   0x8C080000 lw $t0, 0($zero)        0xAC080000 sw $t0, 0($zero)
\*   0x01294020 add $t0, $t1, $t1       0x8D090000 lw $t1, 0($t0)
\*   0x0D000000 jal, whose target bits read as rs = 8
HazardPool ==
  { <<2,0,0,8,0,0,0,5>>, <<0,1,0,8,4,8,2,0>>, <<8,12,0,8,0,0,0,0>>,
    <<10,12,0,8,0,0,0,0>>, <<0,1,2,9,4,0,2,0>>, <<8,13,0,9,0,0,0,0>>,
    <<0,13,0,0,0,0,0,0>> }

\* The instruction words analysed in SpecLookback:
\*   0x20080005 addi $t0, $zero, 5      0x01084820 add $t1, $t0, $t0
\*   0x8C080000 lw $t0, 0($zero)        0x200A0005 addi $t2, $zero, 5
LookbackPool ==
  { <<2,0,0,8,0,0,0,5>>, <<0,1,0,8,4,8,2,0>>, <<8,12,0,8,0,0,0,0>>,
    <<2,0,0,10,0,0,0,5>> }

\* The instruction words run in SpecStall, each reading the result of the one
\* before it in some order:
\*   0x20080005 addi $t0, $zero, 5      0x01084820 add $t1, $t0, $t0
\*   0x01294020 add $t0, $t1, $t1
StallPool ==
  { <<2,0,0,8,0,0,0,5>>, <<0,1,0,8,4,8,2,0>>, <<0,1,2,9,4,0,2,0>> }

\* The instruction words run in SpecControl:
\*   0x20080005 addi $t0, $zero, 5      0x11000001 beq $t0, $zero, 1
\*   0x15000001 bne $t0, $zero, 1       0x08000004 j 4
\*   0x0C000008 jal 8
ControlPool ==
  { <<2,0,0,8,0,0,0,5>>, <<1,1,0,0,0,0,0,1>>, <<1,5,0,0,0,0,0,1>>,
    <<0,8,0,0,0,0,0,4>>, <<0,12,0,0,0,0,0,8>> }

\* The instruction words run in SpecMemory:
\*   0x20080005 addi $t0, $zero, 5      0xAC08001F sw $t0, 31($zero)
\*   0xAD08001B sw $t0, 27($t0)         0xE0080020 sc $t0, 32($zero)
\*   0x8C08FFFF lw $t0, -1($zero)       0x3108001B andi $t0, $t0, 27
\*   0x00084042 srl $t0, $t0, 1
MemoryPool ==
  { <<2,0,0,8,0,0,0,5>>, <<10,12,0,8,0,0,1,15>>, <<10,13,0,8,0,0,1,11>>,
    <<14,0,0,8,0,0,2,0>>, <<8,12,0,8,15,15,15,15>>, <<3,1,0,8,0,0,1,11>>,
    <<0,0,0,8,4,0,4,2>> }

\* The instruction words run in SpecData:
\*   0x20080005 addi $t0, $zero, 5      0x8C080000 lw $t0, 0($zero)
\*   0x21090005 addi $t1, $t0, 5        0xAC080000 sw $t0, 0($zero)
\*   0x01084820 add $t1, $t0, $t0       0x01094827 nor $t1, $t0, $t1
\*   0x00084840 sll $t1, $t0, 1
DataPool ==
  { <<2,0,0,8,0,0,0,5>>, <<8,12,0,8,0,0,0,0>>, <<2,1,0,9,0,0,0,5>>,
    <<10,12,0,8,0,0,0,0>>, <<0,1,0,8,4,8,2,0>>, <<0,1,0,9,4,8,2,7>>,
    <<0,0,0,8,4,8,4,0>> }

\* The instruction words analysed in SpecImmediate, one per immediate opcode
\* and a store that reads $t0 as its base register:
\*   0x20080005 addi $t0, $zero, 5      0x24080005 addiu $t0, $zero, 5
\*   0x28080005 slti $t0, $zero, 5      0x2C080005 sltiu $t0, $zero, 5
\*   0x30080005 andi $t0, $zero, 5      0x34080005 ori $t0, $zero, 5
\*   0x3C080005 lui $t0, 5              0xAD000000 sw $zero, 0($t0)
ImmediatePool ==
  { <<2,0,0,8,0,0,0,5>>, <<2,4,0,8,0,0,0,5>>, <<2,8,0,8,0,0,0,5>>,
    <<2,12,0,8,0,0,0,5>>, <<3,0,0,8,0,0,0,5>>, <<3,4,0,8,0,0,0,5>>,
    <<3,12,0,8,0,0,0,5>>, <<10,13,0,0,0,0,0,0>> }

\* The instruction words run in SpecTermination:
\*   0x20080005 addi $t0, $zero, 5      0x21090005 addi $t1, $t0, 5
\*   0x1000FFFE beq $zero, $zero, -2    0x08000000 j 0
\*   0x08000004 j 4
LoopPool ==
  { <<2,0,0,8,0,0,0,5>>, <<2,1,0,9,0,0,0,5>>, <<1,0,0,0,15,15,15,14>>,
    <<0,8,0,0,0,0,0,0>>, <<0,8,0,0,0,0,0,4>> }

\* parseInstruction of the words of the pools, evaluated once
ParsedWords ==
  [word \in Pool \cup HazardPool \cup ControlPool \cup MemoryPool \cup DataPool
                \cup ImmediatePool \cup LoopPool \cup LookbackPool
                \cup StallPool |->
     parseInstruction(word)]

\* startSimulation, lines 854-857: registerUsage[index] = parseInstruction(inst)
RegisterUsageOf(instructions) ==
  [index \in 0..(Len(instructions) - 1) |->
     LET inst == instructions[index + 1]
     IN  IF inst \in DOMAIN ParsedWords THEN ParsedWords[inst]
         ELSE parseInstruction(inst)]

(***************************************************************************)
(* detectHazards.                                                          *)
(***************************************************************************)
\* lines 549-558: every instruction starts with no hazard
NoHazardTables(instructions) ==
  LET indices == 0..(Len(instructions) - 1)
  IN  [hazards |-> [index \in indices |->
                      [type |-> "NONE", canForward |-> FALSE, stallCycles |-> 0]],
       forwardings |-> [index \in indices |-> << >>],
       stalls |-> [index \in indices |-> 0]]

\* lines 578-588: instruction i reads the register instruction j writes
hasRawHazard(currentInst, prevInst) ==
  \/ currentInst.rs # 0 /\ currentInst.rs = prevInst.rd
  \/ /\ currentInst.rt # 0
     /\ currentInst.rt = prevInst.rd
     /\ (currentInst.isStore \/ (~currentInst.isLoad /\ currentInst.type # "I"))

\* a faulty variant: one stall cycle at every distance
RawStallCyclesAlwaysOne(distance) == IF distance = 1 THEN 1 ELSE 1

\* lines 639 and 641: the stall cycles of a RAW hazard that is not forwarded
RawStallCycles(distance) == IF distance = 1 THEN 2 ELSE 1

\* a faulty variant: a load-use hazard costs as much as a RAW hazard at distance 1
LoadUseStallCyclesAsRaw(forwardingEnabled) == IF forwardingEnabled THEN 0 ELSE 2

\* lines 599 and 601: the stall cycles of a load-use hazard
LoadUseStallCycles(forwardingEnabled) == IF forwardingEnabled THEN 0 ELSE 1

\* a faulty variant: every forwarded value comes from MEM
RawFromStageAlwaysMem(distance) == "MEM"

\* line 629: the stage a forwarded value of a non-load producer comes from
RawFromStage(distance) == IF distance = 1 THEN "EX" ELSE "MEM"

\* lines 590-644: the records of a RAW hazard of i on j
RecordRaw(tables, prevInst, forwardingEnabled, i, j) ==
  LET distance == i - j
      edge(fromStage) == [from |-> j, to |-> i, fromStage |-> fromStage,
                          toStage |-> "EX", register |-> RegName(prevInst.rd)]
  IN  IF prevInst.isLoad
        THEN IF distance = 1
               THEN [hazards |-> [tables.hazards EXCEPT ![i] =
                        [type |-> "RAW", canForward |-> forwardingEnabled,
                         stallCycles |-> LoadUseStallCycles(forwardingEnabled)]],
                     stalls |-> [tables.stalls EXCEPT ![i] =
                        LoadUseStallCycles(forwardingEnabled)],
                     forwardings |->
                        IF forwardingEnabled
                          THEN [tables.forwardings EXCEPT ![i] = Append(@, edge("MEM"))]
                          ELSE tables.forwardings]
               ELSE tables
      ELSE IF forwardingEnabled
        THEN [hazards |-> [tables.hazards EXCEPT ![i] =
                 [type |-> "RAW", canForward |-> TRUE, stallCycles |-> 0]],
              stalls |-> tables.stalls,
              forwardings |-> [tables.forwardings EXCEPT ![i] =
                 Append(@, edge(RawFromStage(distance)))]]
      ELSE [hazards |-> [tables.hazards EXCEPT ![i] =
               [type |-> "RAW", canForward |-> FALSE,
                stallCycles |-> RawStallCycles(distance)]],
            stalls |-> [tables.stalls EXCEPT ![i] = RawStallCycles(distance)],
            forwardings |-> tables.forwardings]

\* lines 647-658: the record of a WAW hazard of i on j
RecordWaw(tables, currentInst, prevInst, i) ==
  IF currentInst.rd # 0 /\ currentInst.rd = prevInst.rd
       /\ ~hasRawHazard(currentInst, prevInst)
    THEN [tables EXCEPT !.hazards[i] =
            [type |-> "WAW", canForward |-> TRUE, stallCycles |-> 0]]
    ELSE tables

\* lines 570-658: the body of the inner loop, for one producer j
HazardStep(tables, registerUsage, forwardingEnabled, i, j) ==
  LET currentInst == registerUsage[i]
      prevInst    == registerUsage[j]
  IN  IF prevInst.rd = 0 /\ ~prevInst.isLoad
        THEN tables
        ELSE RecordWaw(
               IF hasRawHazard(currentInst, prevInst)
                 THEN RecordRaw(tables, prevInst, forwardingEnabled, i, j)
                 ELSE tables,
               currentInst, prevInst, i)

\* a faulty variant: only the nearest producer is examined
ScanNearestProducer(tables, registerUsage, forwardingEnabled, i, j) ==
  IF j >= 0 /\ i - j <= 1
    THEN HazardStep(tables, registerUsage, forwardingEnabled, i, j)
    ELSE tables

RECURSIVE ScanProducers(_, _, _, _, _)
\* line 569: for (let j = i - 1; j >= 0 && i - j <= 3; j--)
ScanProducers(tables, registerUsage, forwardingEnabled, i, j) ==
  IF j >= 0 /\ i - j <= Lookback
    THEN ScanProducers(HazardStep(tables, registerUsage, forwardingEnabled, i, j),
                       registerUsage, forwardingEnabled, i, j - 1)
    ELSE tables

RECURSIVE ScanInstructions(_, _, _, _, _)
\* lines 564-567: for (let i = 1; i < instructions.length; i++), J-type skipped
ScanInstructions(tables, registerUsage, forwardingEnabled, i, length) ==
  IF i < length
    THEN ScanInstructions(
           IF registerUsage[i].type = "J"
             THEN tables
             ELSE ScanProducers(tables, registerUsage, forwardingEnabled, i, i - 1),
           registerUsage, forwardingEnabled, i + 1, length)
    ELSE tables

\* a faulty variant: hazards are recorded although stalls are disabled
detectHazardsAlways(instructions, registerUsage, forwardingEnabled, stallsEnabled) ==
  ScanInstructions(NoHazardTables(instructions), registerUsage,
                   forwardingEnabled, 1, Len(instructions))

detectHazards(instructions, registerUsage, forwardingEnabled, stallsEnabled) ==
  IF ~stallsEnabled
    THEN NoHazardTables(instructions)
    ELSE ScanInstructions(NoHazardTables(instructions), registerUsage,
                          forwardingEnabled, 1, Len(instructions))

(***************************************************************************)
(* The decoder translateInstructionToMIPS of ./Converter, which is not     *)
(* part of the sources at hand.  It is modelled as the standard MIPS       *)
(* decoding of the instruction word into a mnemonic and its operands:      *)
(* registers by the names of regMap, the 16-bit immediate as a signed      *)
(* number, the 5-bit shift amount, the 26-bit jump target as the number    *)
(* the operand text denotes.                                               *)
(* An encoding outside the table decodes to a mnemonic the execution unit  *)
(* does not know.                                                          *)
(***************************************************************************)
Mnemonic(opcode, funct) ==
  IF opcode = 0
    THEN CASE funct = 32 -> "add"  [] funct = 33 -> "addu"
           [] funct = 34 -> "sub"  [] funct = 35 -> "subu"
           [] funct = 36 -> "and"  [] funct = 37 -> "or"
           [] funct = 39 -> "nor"
           [] funct = 0  -> "sll"  [] funct = 2  -> "srl"
           [] funct = 42 -> "slt"  [] funct = 43 -> "sltu"
           [] funct = 8  -> "jr"
           [] OTHER -> "unknown"
    ELSE CASE opcode = 8  -> "addi" [] opcode = 9  -> "addiu"
           [] opcode = 10 -> "slti" [] opcode = 11 -> "sltiu"
           [] opcode = 12 -> "andi" [] opcode = 13 -> "ori"
           [] opcode = 15 -> "lui"
           [] opcode = 4  -> "beq"  [] opcode = 5  -> "bne"
           [] opcode = 2  -> "j"    [] opcode = 3  -> "jal"
           [] opcode = 35 -> "lw"   [] opcode = 43 -> "sw"
           [] opcode = 36 -> "lbu"  [] opcode = 37 -> "lhu"
           [] opcode = 48 -> "ll"   [] opcode = 40 -> "sb"
           [] opcode = 41 -> "sh"   [] opcode = 56 -> "sc"
           [] OTHER -> "unknown"

translateInstructionToMIPS(hexInstruction) ==
  LET binary == hexInstruction
      imm16  == Field(binary, 16, 32)
  IN  [op |-> Mnemonic(Field(binary, 0, 6), Field(binary, 26, 32)),
       rs |-> RegName(Field(binary, 6, 11)),
       rt |-> RegName(Field(binary, 11, 16)),
       rd |-> RegName(Field(binary, 16, 21)),
       shamt |-> Field(binary, 21, 26),
       immediate |-> IF imm16 >= 32768 THEN imm16 - 65536 ELSE imm16,
       target |-> Field(binary, 6, 32)]

(***************************************************************************)
(* executeMIPSInstruction.  The result holds the registers and the memory  *)
(* the call leaves behind (the code mutates its arguments) and the value   *)
(* returned: hasNewPC is FALSE when the code returns undefined.            *)
(***************************************************************************)
\* lines 238-248: the operand is read from the register file either way
getForwardedValue(registers, forwardings, stage, regName, defaultValue) ==
  IF \E k \in 1..Len(forwardings) :
        forwardings[k].register = regName /\ forwardings[k].toStage = stage
    THEN registers[regName]
    ELSE defaultValue

\* x >>> 0 compared with y >>> 0, for x and y in the 32-bit signed range
UnsignedLess(x, y) ==
  IF (x < 0) = (y < 0) THEN x < y ELSE y < 0

(***************************************************************************)
(* The bitwise operators of JavaScript on numbers in the 32-bit signed     *)
(* range, in two's complement: x \div 2 drops the lowest bit, x % 2 is it, *)
(* and the bits above the 32nd repeat the sign.                            *)
(***************************************************************************)
RECURSIVE BitAnd(_, _)
\* lines 277 and 286: x & y
BitAnd(x, y) ==
  IF x = 0 \/ y = 0 THEN 0
  ELSE IF x = -1 THEN y
  ELSE IF y = -1 THEN x
  ELSE (x % 2) * (y % 2) + 2 * BitAnd(x \div 2, y \div 2)

RECURSIVE BitOr(_, _)
\* lines 294, 303 and 372: x | y
BitOr(x, y) ==
  IF x = 0 THEN y
  ELSE IF y = 0 THEN x
  ELSE IF x = -1 \/ y = -1 THEN -1
  ELSE (IF x % 2 = 1 \/ y % 2 = 1 THEN 1 ELSE 0) + 2 * BitOr(x \div 2, y \div 2)

\* line 372: ~x
BitNot(x) == -x - 1

\* x << 1: the low 31 bits move up by one and bit 30 becomes the sign
ShiftLeftOnce(x) ==
  LET low  == x % 1073741824
      sign == (x \div 1073741824) % 2
  IN  IF sign = 1 THEN (2 * low - 2147483647) - 1 ELSE 2 * low

RECURSIVE ShiftLeft(_, _)
\* lines 346 and 428: x << count, the count taken modulo 32
ShiftLeft(x, count) ==
  IF count % 32 = 0 THEN x ELSE ShiftLeft(ShiftLeftOnce(x), (count % 32) - 1)

RECURSIVE PowerOfTwo(_)
PowerOfTwo(n) == IF n = 0 THEN 1 ELSE 2 * PowerOfTwo(n - 1)

\* line 355: x >>> count, the count taken modulo 32; a negative x counts as
\* x + 2^32, so a negative x shifted by 0 lies above the 32-bit signed range
ShiftRightUnsigned(x, count) ==
  LET n == count % 32
  IN  IF n = 31 THEN (IF x < 0 THEN 1 ELSE 0)
      ELSE IF x >= 0 THEN x \div PowerOfTwo(n)
      ELSE IF n = 0 THEN ((x + 2147483647) + 1) + 2147483647 + 1
      ELSE (((x + 2147483647) + 1) \div PowerOfTwo(n)) + PowerOfTwo(31 - n)

\* a faulty variant: the displacement counts from the branch itself
BranchTargetFromBranch(PC, offset) == PC + offset

\* lines 383 and 397: newPC = PC + 1 + parseInt(offset)
BranchTarget(PC, offset) == PC + 1 + offset

\* a faulty variant: the target is taken as a word address
JumpTargetUnshifted(target) == target

\* lines 406 and 413: newPC = parseInt(target, 16) >> 2
JumpTarget(target) == target \div 4

\* lines 252-432: the EX stage
ExecuteEX(d, registers, memory, PC, forwardings) ==
  LET value(regName) ==
        getForwardedValue(registers, forwardings, "EX", regName, registers[regName])
      rsValue == value(d.rs)
      rtValue == value(d.rt)
      write(regName, v) ==
        [registers |-> [registers EXCEPT ![regName] = v], memory |-> memory,
         hasNewPC |-> FALSE, newPC |-> 0]
      jump(regs, target) ==
        [registers |-> regs, memory |-> memory, hasNewPC |-> TRUE, newPC |-> target]
      nothing ==
        [registers |-> registers, memory |-> memory, hasNewPC |-> FALSE, newPC |-> 0]
  IN  CASE d.op \in {"add", "addu"}   -> write(d.rd, rsValue + rtValue)
        [] d.op \in {"addi", "addiu"} -> write(d.rt, rsValue + d.immediate)
        [] d.op \in {"sub", "subu"}   -> write(d.rd, rsValue - rtValue)
        [] d.op = "and"   -> write(d.rd, BitAnd(rsValue, rtValue))
        [] d.op = "andi"  -> write(d.rt, BitAnd(rsValue, d.immediate))
        [] d.op = "or"    -> write(d.rd, BitOr(rsValue, rtValue))
        [] d.op = "ori"   -> write(d.rt, BitOr(rsValue, d.immediate))
        [] d.op = "nor"   -> write(d.rd, BitNot(BitOr(rsValue, rtValue)))
        [] d.op = "sll"   -> write(d.rd, ShiftLeft(rtValue, d.shamt))
        [] d.op = "srl"   -> write(d.rd, ShiftRightUnsigned(rtValue, d.shamt))
        [] d.op = "lui"   -> write(d.rt, ShiftLeft(d.immediate, 16))
        [] d.op = "slt"   -> write(d.rd, IF rsValue < rtValue THEN 1 ELSE 0)
        [] d.op = "slti"  -> write(d.rt, IF rsValue < d.immediate THEN 1 ELSE 0)
        [] d.op = "sltiu" ->
             write(d.rt, IF UnsignedLess(rsValue, d.immediate) THEN 1 ELSE 0)
        [] d.op = "sltu"  ->
             write(d.rd, IF UnsignedLess(rsValue, rtValue) THEN 1 ELSE 0)
        [] d.op = "beq" ->
             IF rsValue = rtValue THEN jump(registers, BranchTarget(PC, d.immediate))
                                  ELSE nothing
        [] d.op = "bne" ->
             IF rsValue # rtValue THEN jump(registers, BranchTarget(PC, d.immediate))
                                  ELSE nothing
        [] d.op = "j"   -> jump(registers, JumpTarget(d.target))
        [] d.op = "jal" ->
             jump([registers EXCEPT !["$ra"] = PC + 2], JumpTarget(d.target))
        [] d.op = "jr"  -> jump(registers, rsValue \div 4)
        [] OTHER -> nothing

\* a faulty variant: the word after the last one counts as memory
ValidAddressInclusive(sum) == sum >= 0 /\ sum <= MemoryWords

\* lines 450-456 and 485-491: (baseValue + offset) >>> 0 is a memory address
\* (for a sum in the 32-bit signed range, a negative sum wraps above 2^31)
ValidAddress(sum) == sum >= 0 /\ sum < MemoryWords

\* lines 436-518: the MEM stage
ExecuteMEM(d, registers, memory, PC, forwardings) ==
  LET value(regName) ==
        getForwardedValue(registers, forwardings, "MEM", regName, registers[regName])
      address == value(d.rs) + d.immediate
      valueToStore == value(d.rt)
      load(v) ==
        [registers |-> [registers EXCEPT ![d.rt] = v], memory |-> memory,
         hasNewPC |-> FALSE, newPC |-> 0]
      store(v) ==
        [registers |-> registers, memory |-> [memory EXCEPT ![address] = v],
         hasNewPC |-> FALSE, newPC |-> 0]
      nothing ==
        [registers |-> registers, memory |-> memory, hasNewPC |-> FALSE, newPC |-> 0]
  IN  IF d.op \in {"lw", "sw", "lbu", "lhu", "ll", "sb", "sh", "sc"}
           /\ ValidAddress(address)
        THEN CASE d.op = "lw"  -> load(memory[address])
               [] d.op = "sw"  -> store(valueToStore)
               [] d.op = "lbu" -> load(memory[address] % 256)
               [] d.op = "lhu" -> load(memory[address] % 65536)
               [] d.op = "ll"  -> load(memory[address])
               [] d.op = "sb"  -> store(valueToStore % 256)
               [] d.op = "sh"  -> store(valueToStore % 65536)
               [] d.op = "sc"  ->
                    [registers |-> [registers EXCEPT ![d.rt] = 1],
                     memory |-> [memory EXCEPT ![address] = valueToStore],
                     hasNewPC |-> FALSE, newPC |-> 0]
        ELSE nothing

\* a faulty variant: $zero is left as the instruction wrote it
ForceZeroSkipped(registers) == registers

\* lines 528-529: registers["$zero"] = 0 after every call
ForceZero(registers) == [registers EXCEPT !["$zero"] = 0]

executeMIPSInstruction(hexInstruction, registers, memory, PC, stage, forwardings) ==
  CHOOSE result \in
    { LET done ==
            CASE stage = "EX"  -> ExecuteEX(d, registers, memory, PC, forwardings)
              [] stage = "MEM" -> ExecuteMEM(d, registers, memory, PC, forwardings)
              [] OTHER -> [registers |-> registers, memory |-> memory,
                           hasNewPC |-> FALSE, newPC |-> 0]
      IN  [done EXCEPT !.registers = ForceZero(@)] :
      d \in {translateInstructionToMIPS(hexInstruction)} } : TRUE

(***************************************************************************)
(* calculateNextState: one tick of the clock.                              *)
(***************************************************************************)
RECURSIVE calculatePrecedingStalls(_, _)
\* lines 665-674: stalls[0] + ... + stalls[index - 1], a missing entry counts 0
calculatePrecedingStalls(stalls, index) ==
  IF index <= 0 THEN 0
  ELSE calculatePrecedingStalls(stalls, index - 1)
       + (IF (index - 1) \in DOMAIN stalls THEN stalls[index - 1] ELSE 0)

RECURSIVE SumValues(_)
\* lines 704-707 and 866-869: the sum of Object.values(stalls)
SumValues(stalls) ==
  IF DOMAIN stalls = {} THEN 0
  ELSE LET k == CHOOSE x \in DOMAIN stalls : TRUE
       IN  stalls[k] + SumValues([x \in DOMAIN stalls \ {k} |-> stalls[x]])

\* lines 711 and 780: the stage of the instruction at position index of the
\* window, whose stalls are looked up at stallIndex
StageIndexAt(nextCycle, index, stalls, stallIndex) ==
  nextCycle - index - 1 - calculatePrecedingStalls(stalls, stallIndex)

\* a faulty variant: the stage after WB counts as a stage
IsStageInclusive(stageIndex, stageCount) == stageIndex >= 0 /\ stageIndex <= stageCount

\* lines 713 and 781
IsStage(stageIndex, stageCount) == stageIndex >= 0 /\ stageIndex < stageCount

\* a faulty variant: the stall is injected when the instruction is fetched
InjectedStallAtFetch(stageIndex, stalls, index, newStallCycles) ==
  IF stageIndex = 0 /\ stalls[index] > 0 /\ newStallCycles = 0
    THEN stalls[index]
    ELSE newStallCycles

\* lines 717-723: the stall an instruction entering ID injects
InjectedStall(stageIndex, stalls, index, newStallCycles) ==
  IF stageIndex = 1 /\ stalls[index] > 0 /\ newStallCycles = 0
    THEN stalls[index]
    ELSE newStallCycles

\* a faulty variant: every execution reads the registers of the input snapshot
SnapshotRegisters(acc, currentState) == currentState.registers

\* lines 687 and 729, 742, 755: every execution of the tick is handed the one
\* scratch copy newRegisters
ScratchRegisters(acc, currentState) == acc.registers

\* lines 710-762: the body of the forEach over the instructions, for one index;
\* acc holds newInstructionStages, newStallCycles, newRegisters, newMemory, newPC
TickInstruction(acc, currentState, nextCycle, index) ==
  LET inst == currentState.instructions[index + 1]
      stageIndex == StageIndexAt(nextCycle, index, currentState.stalls, index)
      forwardings == IF index \in DOMAIN currentState.forwardings
                       THEN currentState.forwardings[index] ELSE << >>
      run(stage) == executeMIPSInstruction(inst, ScratchRegisters(acc, currentState),
                                           acc.memory, acc.PC, stage, forwardings)
      executes == stageIndex = 2 \/ stageIndex = 3 \/ stageIndex = 4
      stage == IF stageIndex = 2 THEN "EX" ELSE IF stageIndex = 3 THEN "MEM" ELSE "WB"
      stages == acc.stages @@ (index :> stageIndex)
      stall == InjectedStall(stageIndex, currentState.stalls, index, acc.stall)
  IN  IF ~IsStage(stageIndex, currentState.stageCount)
        THEN [acc EXCEPT !.stages = @ @@ (index :> NULL)]
      ELSE IF ~executes
        THEN [acc EXCEPT !.stages = stages, !.stall = stall]
      ELSE CHOOSE next \in
             { [stages |-> stages, stall |-> stall,
                registers |-> done.registers, memory |-> done.memory,
                PC |-> IF stageIndex = 2 /\ done.hasNewPC
                         THEN done.newPC ELSE acc.PC] :
               done \in {run(stage)} } : TRUE

RECURSIVE TickInstructionsDescending(_, _, _, _)
\* a faulty variant: the instructions are processed from the last to the first
TickInstructionsDescending(acc, currentState, nextCycle, index) ==
  IF index < Len(currentState.instructions)
    THEN TickInstruction(
           TickInstructionsDescending(acc, currentState, nextCycle, index + 1),
           currentState, nextCycle, index)
    ELSE acc

RECURSIVE TickInstructions(_, _, _, _)
\* line 709: currentState.instructions.forEach, in index order; CHOOSE over a
\* one-element set names the accumulator after this instruction, a value
\* computed once, as the loop holds it in newRegisters, newMemory and newPC
TickInstructions(acc, currentState, nextCycle, index) ==
  IF index < Len(currentState.instructions)
    THEN CHOOSE result \in
           { TickInstructions(next, currentState, nextCycle, index + 1) :
               next \in {TickInstruction(acc, currentState, nextCycle, index)} } : TRUE
    ELSE acc

\* array.slice(start) of JavaScript
Slice(array, start) ==
  LET from == IF start < 0
                THEN (IF Len(array) + start < 0 THEN 0 ELSE Len(array) + start)
                ELSE (IF start > Len(array) THEN Len(array) ELSE start)
  IN  SubSeq(array, from + 1, Len(array))

\* a faulty variant: one cycle too many
CompletionCycleOneMore(length, stageCount, totalStallCycles) ==
  IF length > 0 THEN length + stageCount + totalStallCycles ELSE 0

\* lines 765-770
CompletionCycle(length, stageCount, totalStallCycles) ==
  IF length > 0 THEN length + stageCount - 1 + totalStallCycles ELSE 0

\* a faulty variant: the cycle of a finished snapshot is not clamped
CycleNotClamped(isFinished, completionCycle, nextCycle) == nextCycle

\* line 799: the cycle of the snapshot a tick without redirection returns
CycleAfterTick(isFinished, completionCycle, nextCycle) ==
  IF isFinished THEN completionCycle ELSE nextCycle

\* lines 775-795: the snapshot after a tick that changed the program counter
Redirected(currentState, nextCycle, acc) ==
  LET newInstructions == Slice(currentState.instructions, acc.PC)
      keys == { index + acc.PC : index \in 0..(Len(newInstructions) - 1) }
  IN  [currentState EXCEPT
         !.instructions = newInstructions,
         !.currentCycle = nextCycle,
         !.instructionStages =
            [key \in keys |->
               LET stageIndex ==
                     StageIndexAt(nextCycle, key - acc.PC, currentState.stalls, key)
               IN  IF IsStage(stageIndex, currentState.stageCount)
                     THEN stageIndex ELSE NULL],
         !.isRunning = TRUE,
         !.isFinished = FALSE,
         !.currentStallCycles = acc.stall,
         !.registers = acc.registers,
         !.memory = acc.memory,
         !.PC = acc.PC]

\* a faulty variant: the cycle stands still while the stall is served
StallTickHoldingCycle(currentState) ==
  [currentState EXCEPT !.currentStallCycles = currentState.currentStallCycles - 1]

\* a faulty variant: the pending stall is never served
StallTickNeverServed(currentState) == currentState

\* lines 691-702: a tick while a stall is pending
StallTick(currentState) ==
  [currentState EXCEPT !.currentCycle = currentState.currentCycle + 1,
                       !.currentStallCycles = currentState.currentStallCycles - 1]

\* a faulty variant: a paused snapshot is advanced
HaltedWhenFinished(currentState) == currentState.isFinished

\* line 677: the snapshot is returned as it is
Halted(currentState) == ~currentState.isRunning \/ currentState.isFinished

calculateNextState(currentState) ==
  IF Halted(currentState)
    THEN currentState
  ELSE IF currentState.currentStallCycles > 0
    THEN StallTick(currentState)
  ELSE
    LET nextCycle == currentState.currentCycle + 1
        totalStallCycles == SumValues(currentState.stalls)
        start == [stages |-> << >>, stall |-> currentState.currentStallCycles,
                  registers |-> currentState.registers,
                  memory |-> currentState.memory, PC |-> currentState.PC]
        completionCycle == CompletionCycle(Len(currentState.instructions),
                                           currentState.stageCount, totalStallCycles)
        isFinished == nextCycle > completionCycle
    IN  CHOOSE nextState \in
          { IF ~isFinished /\ acc.PC # currentState.PC
              THEN Redirected(currentState, nextCycle, acc)
              ELSE [currentState EXCEPT
                      !.currentCycle =
                         CycleAfterTick(isFinished, completionCycle, nextCycle),
                      !.instructionStages = acc.stages,
                      !.isRunning = ~isFinished,
                      !.isFinished = isFinished,
                      !.currentStallCycles = acc.stall,
                      !.registers = acc.registers,
                      !.memory = acc.memory,
                      !.PC = acc.PC] :
            acc \in {TickInstructions(start, currentState, nextCycle, 0)} } : TRUE

\* lines 676 and 687-688: the objects that hold the registers and the memory of
\* the snapshot calculateNextState is called with
InputObjects ==
  [registers |-> "currentState.registers", memory |-> "currentState.memory"]

\* a faulty variant: the tick writes into the objects of the input snapshot
AliasedScratchObjects == InputObjects

\* lines 687-688: newRegisters and newMemory are spread copies, objects of
\* their own, and they are the objects every executeMIPSInstruction call of the
\* tick is handed and the returned snapshot holds (lines 698-699, 791-792,
\* 804-805)
ScratchObjects == [registers |-> "newRegisters", memory |-> "newMemory"]

\* lines 676-808: the contents of the objects when calculateNextState, called
\* with currentState, has returned nextState.  executeMIPSInstruction writes
\* in place into the objects it is handed, so the scratch objects hold what
\* the returned snapshot shows; an object that is not written keeps the
\* contents the input snapshot had
ObjectsAfterTick(currentState, nextState) ==
  LET input == (InputObjects.registers :> currentState.registers)
                 @@ (InputObjects.memory :> currentState.memory)
      written == (ScratchObjects.registers :> nextState.registers)
                   @@ (ScratchObjects.memory :> nextState.memory)
  IN  IF Halted(currentState) THEN input ELSE written @@ input

(***************************************************************************)
(* The provider: the snapshot and the operations on it.                    *)
(***************************************************************************)
initialState ==
  [instructions |-> << >>, currentCycle |-> 0, maxCycles |-> 0,
   isRunning |-> FALSE, stageCount |-> DEFAULT_STAGE_COUNT,
   instructionStages |-> << >>, isFinished |-> FALSE, registerUsage |-> << >>,
   hazards |-> << >>, forwardings |-> << >>, stalls |-> << >>,
   currentStallCycles |-> 0, forwardingEnabled |-> TRUE, stallsEnabled |-> TRUE,
   registers |-> initialRegisters, memory |-> initialMemory, PC |-> 0]

\* a faulty variant: the toggles return to their defaults
ResetStateDefaultToggles(prevState) == initialState

\* lines 839-843
ResetState(prevState) ==
  [initialState EXCEPT !.forwardingEnabled = prevState.forwardingEnabled,
                       !.stallsEnabled = prevState.stallsEnabled]

\* lines 871-874
CalculatedMaxCycles(length, totalStallCycles) ==
  length + DEFAULT_STAGE_COUNT - 1 + totalStallCycles

\* lines 875-884
InitialStages(submittedInstructions) ==
  [index \in 0..(Len(submittedInstructions) - 1) |->
     LET stageIndex == 1 - index - 1
     IN  IF IsStage(stageIndex, DEFAULT_STAGE_COUNT) THEN stageIndex ELSE NULL]

\* lines 854-904: the snapshot startSimulation installs for a non-empty program
StartedState(submittedInstructions, forwardingEnabled, stallsEnabled) ==
  LET registerUsage == RegisterUsageOf(submittedInstructions)
      tables == detectHazards(submittedInstructions, registerUsage,
                              forwardingEnabled, stallsEnabled)
  IN  [instructions |-> submittedInstructions,
       currentCycle |-> 1,
       maxCycles |-> CalculatedMaxCycles(Len(submittedInstructions),
                                         SumValues(tables.stalls)),
       isRunning |-> TRUE,
       stageCount |-> DEFAULT_STAGE_COUNT,
       instructionStages |-> InitialStages(submittedInstructions),
       isFinished |-> FALSE,
       registerUsage |-> registerUsage,
       hazards |-> tables.hazards,
       forwardings |-> tables.forwardings,
       stalls |-> tables.stalls,
       currentStallCycles |-> 0,
       forwardingEnabled |-> forwardingEnabled,
       stallsEnabled |-> stallsEnabled,
       registers |-> initialRegisters,
       memory |-> initialMemory,
       PC |-> 0]

\* the programs of at most maxLen instructions of a pool
Programs(pool, maxLen) == UNION { [1..n -> pool] : n \in 0..maxLen }

\* the two toggles of a snapshot
Toggles(state) ==
  [forwardingEnabled |-> state.forwardingEnabled,
   stallsEnabled |-> state.stallsEnabled]

Init ==
  /\ simulationState = initialState
  /\ rendered = Toggles(initialState)

\* lines 846-905: the toggles are those of the render that created the callback
startSimulation(submittedInstructions) ==
  /\ simulationState' =
       IF Len(submittedInstructions) = 0
         THEN ResetState(simulationState)
         ELSE StartedState(submittedInstructions, rendered.forwardingEnabled,
                           rendered.stallsEnabled)
  /\ UNCHANGED rendered

\* lines 837-844
resetSimulation ==
  /\ simulationState' = ResetState(simulationState)
  /\ UNCHANGED rendered

\* lines 913-921
pauseSimulation ==
  /\ simulationState' = IF simulationState.isRunning
                          THEN [simulationState EXCEPT !.isRunning = FALSE]
                          ELSE simulationState
  /\ UNCHANGED rendered

\* a faulty variant: resume sets the running flag whatever the snapshot is
resumeSimulationAlways ==
  /\ simulationState' = [simulationState EXCEPT !.isRunning = TRUE]
  /\ UNCHANGED rendered

\* lines 923-934
resumeSimulation ==
  /\ simulationState' =
       IF ~simulationState.isRunning /\ simulationState.currentCycle > 0
            /\ ~simulationState.isFinished
         THEN [simulationState EXCEPT !.isRunning = TRUE]
         ELSE simulationState
  /\ UNCHANGED rendered

\* lines 936-940
setForwardingEnabled(enabled) ==
  /\ simulationState' = [simulationState EXCEPT !.forwardingEnabled = enabled]
  /\ UNCHANGED rendered

\* a faulty variant: switching stalls off clears the stall table of the run
setStallsEnabledClearing(enabled) ==
  /\ simulationState' =
       [simulationState EXCEPT
          !.stallsEnabled = enabled,
          !.stalls = IF enabled THEN @ ELSE [index \in DOMAIN @ |-> 0]]
  /\ UNCHANGED rendered

\* lines 942-946
setStallsEnabled(enabled) ==
  /\ simulationState' = [simulationState EXCEPT !.stallsEnabled = enabled]
  /\ UNCHANGED rendered

\* lines 826-834: the clock applies calculateNextState
Tick ==
  /\ simulationState' = calculateNextState(simulationState)
  /\ UNCHANGED rendered

\* lines 846-911 and 959-969: the component renders with the current snapshot,
\* and the callback it publishes from then on closes over that snapshot's toggles
Render ==
  /\ rendered # Toggles(simulationState)
  /\ rendered' = Toggles(simulationState)
  /\ UNCHANGED simulationState

Start == \E program \in Programs(Pool, MaxProgramLen) : startSimulation(program)

Configure ==
  \E enabled \in BOOLEAN : setForwardingEnabled(enabled) \/ setStallsEnabled(enabled)

Next ==
  \/ Start
  \/ resetSimulation
  \/ pauseSimulation
  \/ resumeSimulation
  \/ Configure
  \/ Tick
  \/ Render

Spec == Init /\ [][Next]_vars

(***************************************************************************)
(* detectHazards as a function of its inputs: the two toggles are drawn    *)
(* at the start, and startSimulation analyses one program of HazardPool.   *)
(***************************************************************************)
InitHazards ==
  \E forwardingEnabled \in BOOLEAN, stallsEnabled \in BOOLEAN :
     /\ simulationState = [initialState EXCEPT !.forwardingEnabled = forwardingEnabled,
                                               !.stallsEnabled = stallsEnabled]
     /\ rendered = Toggles(simulationState)

Analyse ==
  /\ simulationState.currentCycle = 0
  /\ \E program \in Programs(HazardPool, MaxHazardLen) \ {<< >>} :
        startSimulation(program)

NextHazards == Analyse

SpecHazards == InitHazards /\ [][NextHazards]_vars

(***************************************************************************)
(* The lookback of the hazard analysis: the toggles are drawn at the start *)
(* and startSimulation decodes and analyses one program of LookbackPool,   *)
(* long enough to hold producers three and four instructions back.         *)
(***************************************************************************)
AnalyseLookback ==
  /\ simulationState.currentCycle = 0
  /\ \E program \in Programs(LookbackPool, MaxLookbackLen) \ {<< >>} :
        startSimulation(program)

NextLookback == AnalyseLookback

SpecLookback == InitHazards /\ [][NextLookback]_vars

(***************************************************************************)
(* Control flow: the toggles are drawn at the start, startSimulation       *)
(* installs one program of ControlPool and the clock runs it.              *)
(***************************************************************************)
StartControl ==
  /\ simulationState.currentCycle = 0
  /\ \E program \in Programs(ControlPool, MaxControlLen) \ {<< >>} :
        startSimulation(program)

NextControl == StartControl \/ Tick

SpecControl == InitHazards /\ [][NextControl]_vars

(***************************************************************************)
(* Memory access: the toggles are drawn at the start, startSimulation      *)
(* installs one program of MemoryPool and the clock runs it.               *)
(***************************************************************************)
StartMemory ==
  /\ simulationState.currentCycle = 0
  /\ \E program \in Programs(MemoryPool, MaxMemoryLen) \ {<< >>} :
        startSimulation(program)

NextMemory == StartMemory \/ Tick

SpecMemory == InitHazards /\ [][NextMemory]_vars

(***************************************************************************)
(* Stalls: the toggles are drawn at the start, startSimulation installs    *)
(* one program of StallPool, in which several instructions have a stall    *)
(* table entry, and the clock runs it; the run may be paused and resumed.  *)
(***************************************************************************)
StartStall ==
  /\ simulationState.currentCycle = 0
  /\ \E program \in Programs(StallPool, MaxStallLen) \ {<< >>} :
        startSimulation(program)

NextStall == StartStall \/ Tick \/ pauseSimulation \/ resumeSimulation

SpecStall == InitHazards /\ [][NextStall]_vars

(***************************************************************************)
(* Data flow: the toggles are drawn at the start, startSimulation installs *)
(* one program of DataPool, which has no branch or jump, and the clock     *)
(* runs it.                                                                *)
(***************************************************************************)
StartData ==
  /\ simulationState.currentCycle = 0
  /\ \E program \in Programs(DataPool, MaxDataLen) \ {<< >>} :
        startSimulation(program)

NextData == StartData \/ Tick

SpecData == InitHazards /\ [][NextData]_vars

(***************************************************************************)
(* Immediate instructions: the toggles are drawn at the start and          *)
(* startSimulation decodes and analyses one program of ImmediatePool.      *)
(***************************************************************************)
AnalyseImmediate ==
  /\ simulationState.currentCycle = 0
  /\ \E program \in Programs(ImmediatePool, MaxImmediateLen) \ {<< >>} :
        startSimulation(program)

NextImmediate == AnalyseImmediate

SpecImmediate == InitHazards /\ [][NextImmediate]_vars

(***************************************************************************)
(* Termination: the toggles are drawn at the start, startSimulation        *)
(* installs one program of LoopPool, which has backward branches and       *)
(* jumps, and the clock runs it.  While the snapshot is running and not    *)
(* finished the effect of lines 948-955 keeps the interval of lines        *)
(* 826-834 armed, so a tick that changes the snapshot is eventually        *)
(* delivered: weak fairness of Tick.                                       *)
(***************************************************************************)
StartLoop ==
  /\ simulationState.currentCycle = 0
  /\ \E program \in Programs(LoopPool, MaxLoopLen) \ {<< >>} :
        startSimulation(program)

NextTermination == StartLoop \/ Tick

SpecTermination == InitHazards /\ [][NextTermination]_vars /\ WF_vars(Tick)

(***************************************************************************)
(* The claims.  What the formulas below share.                             *)
(***************************************************************************)
\* a program has been installed by startSimulation
Started == DOMAIN simulationState.registerUsage # {}

\* the number of instructions of the submitted program
SubmittedCount == Cardinality(DOMAIN simulationState.registerUsage)

\* the instruction window is still the submitted program, fetched from 0
WindowIntact ==
  /\ simulationState.PC = 0
  /\ Len(simulationState.instructions) = SubmittedCount

\* the step is a tick of the clock on a running, unfinished snapshot (a tick
\* keeps the decoded fields of the submitted program, which is compared first)
RunningTick ==
  /\ simulationState.isRunning
  /\ ~simulationState.isFinished
  /\ simulationState'.registerUsage = simulationState.registerUsage
  /\ simulationState' = calculateNextState(simulationState)

\* completionCycle as the specification states it
StatedCompletionCycle ==
  Len(simulationState.instructions) + simulationState.stageCount - 1
    + SumValues(simulationState.stalls)

\* the RAW dependency of the specification: the consumer reads, as rs or as a
\* source rt, the register the producer writes (register 0 excluded)
ReadsResultOf(consumer, producer) ==
  \/ consumer.rs # 0 /\ consumer.rs = producer.rd
  \/ /\ consumer.rt # 0 /\ consumer.rt = producer.rd
     /\ (consumer.isStore \/ (~consumer.isLoad /\ consumer.type # "I"))

\* the non-load producers instruction i depends on, within the lookback
NonLoadProducers(i) ==
  LET ru == simulationState.registerUsage
  IN  { j \in DOMAIN ru : /\ j < i /\ i - j <= Lookback
                          /\ ~ru[j].isLoad
                          /\ ReadsResultOf(ru[i], ru[j]) }

\* the instructions detectHazards examines as consumers
Consumers ==
  { i \in DOMAIN simulationState.registerUsage :
      i >= 1 /\ simulationState.registerUsage[i].type # "J" }

HasEdge(i, j, fromStage, register) ==
  \E k \in 1..Len(simulationState.forwardings[i]) :
     simulationState.forwardings[i][k] =
       [from |-> j, to |-> i, fromStage |-> fromStage, toStage |-> "EX",
        register |-> register]

(***************************************************************************)
(* C1: in every reachable snapshot register $zero holds 0, also after a    *)
(* tick in which an instruction whose destination is $zero executed.       *)
(***************************************************************************)
C1_ZeroRegister == simulationState.registers["$zero"] = 0

\* addi $zero, $t0, 5 is in EX in the tick that made this snapshot and read 5
C1_Witness ==
  /\ WindowIntact
  /\ \E index \in DOMAIN simulationState.instructionStages :
        /\ simulationState.instructionStages[index] = 2
        /\ simulationState.instructions[index + 1] = <<2,1,0,0,0,0,0,5>>
  /\ simulationState.registers["$t0"] = 5
  /\ simulationState.currentStallCycles = 0

(***************************************************************************)
(* C2 as stated: in a started simulation, finished holds iff the current   *)
(* cycle is strictly greater than instructionCount + stageCount - 1 + the  *)
(* sum of the stall table.                                                 *)
(***************************************************************************)
C2_Original ==
  Started => (simulationState.isFinished
                <=> simulationState.currentCycle > StatedCompletionCycle)

(***************************************************************************)
(* C2 as amended: a finished snapshot of a started simulation has its      *)
(* current cycle equal to completionCycle (the tick clamps it), where      *)
(* completionCycle is instructionCount + stageCount - 1 + the sum of the   *)
(* stall table for a non-empty instruction window and 0 for an empty one;  *)
(* and a tick with no stall pending sets finished iff the cycle after the  *)
(* current one is strictly greater than completionCycle.                   *)
(***************************************************************************)
C2_CompletionCycle ==
  IF Len(simulationState.instructions) > 0 THEN StatedCompletionCycle ELSE 0

C2_FinishedAtCompletion ==
  /\ [](Started /\ simulationState.isFinished
          => simulationState.currentCycle = C2_CompletionCycle)
  /\ [][RunningTick /\ simulationState.currentStallCycles = 0
          => (simulationState.isFinished'
                <=> simulationState.currentCycle + 1 > C2_CompletionCycle)]_vars

\* a finished run whose stall table is not all zero
C2_Witness ==
  /\ Started
  /\ simulationState.isFinished
  /\ SumValues(simulationState.stalls) > 0
  /\ simulationState.currentCycle = StatedCompletionCycle

(***************************************************************************)
(* C3: every entry of the stage map is null or a stage index in 0..4.      *)
(***************************************************************************)
C3_StagesInRange ==
  \A index \in DOMAIN simulationState.instructionStages :
     \/ simulationState.instructionStages[index] = NULL
     \/ simulationState.instructionStages[index] \in 0..(simulationState.stageCount - 1)

\* one instruction is in WB while the other has left the pipeline
C3_Witness ==
  /\ simulationState.currentCycle > 1
  /\ \E a, b \in DOMAIN simulationState.instructionStages :
        /\ simulationState.instructionStages[a] = 4
        /\ simulationState.instructionStages[b] = NULL

(***************************************************************************)
(* C4: for a started program of N >= 1 instructions with an all-zero stall *)
(* table and no redirection, maxCycles = N + 4, an unfinished snapshot is  *)
(* at a cycle in 1..N+4, and a tick sets finished iff it is taken from     *)
(* cycle N + 4.                                                            *)
(***************************************************************************)
C4_NoHazardCondition ==
  /\ Started
  /\ WindowIntact
  /\ \A index \in DOMAIN simulationState.stalls : simulationState.stalls[index] = 0

C4_NoHazardCompletion ==
  /\ [](C4_NoHazardCondition =>
          /\ simulationState.maxCycles = SubmittedCount + 4
          /\ ~simulationState.isFinished
               => simulationState.currentCycle \in 1..(SubmittedCount + 4))
  /\ [][C4_NoHazardCondition /\ RunningTick
          => (simulationState.isFinished'
                <=> simulationState.currentCycle = SubmittedCount + 4)]_vars

\* a two-instruction program without stalls has just finished
C4_Witness ==
  /\ C4_NoHazardCondition
  /\ SubmittedCount = 2
  /\ simulationState.isFinished
  /\ simulationState.currentCycle = 6

(***************************************************************************)
(* C5: a two-instruction program whose instruction 1 reads as rs the       *)
(* non-zero destination of the non-load arithmetic instruction 0, started  *)
(* with stalls enabled and forwarding disabled, gets 2 stall cycles for    *)
(* instruction 1 and maxCycles = 8, and finishes with current cycle 8.     *)
(***************************************************************************)
C5_Program(state) ==
  LET ru == state.registerUsage
  IN  /\ DOMAIN ru = {0, 1}
      /\ ru[1].type # "J"
      /\ ru[1].rs # 0 /\ ru[1].rs = ru[0].rd
      /\ ~ru[0].isLoad /\ ru[0].type # "J"

C5_DependentPair ==
  /\ [][(/\ rendered.stallsEnabled /\ ~rendered.forwardingEnabled
         /\ C5_Program(simulationState')
         /\ simulationState' = StartedState(simulationState'.instructions, FALSE, TRUE))
          => /\ simulationState'.stalls[1] = 2
             /\ simulationState'.stalls[0] = 0
             /\ simulationState'.maxCycles = 8]_vars
  /\ [](C5_Program(simulationState) /\ simulationState.stalls[1] = 2
          => /\ simulationState.maxCycles = 8
             /\ simulationState.isFinished => simulationState.currentCycle = 8)

\* the dependent pair has run to its end
C5_Witness ==
  /\ C5_Program(simulationState)
  /\ simulationState.stalls[1] = 2
  /\ simulationState.isFinished
  /\ simulationState.currentCycle = 8

(***************************************************************************)
(* C6: with stalls enabled, an instruction i >= 1 that is not J-type and   *)
(* has a RAW dependency on a load at i-1 gets, with forwarding disabled,   *)
(* exactly 1 stall cycle and no forwarding edge from i-1, and with         *)
(* forwarding enabled 0 stall cycles and a MEM->EX edge from i-1 to i      *)
(* tagged with the load's destination register.                            *)
(***************************************************************************)
LoadUseConsumers ==
  { i \in Consumers :
      /\ simulationState.registerUsage[i - 1].isLoad
      /\ ReadsResultOf(simulationState.registerUsage[i],
                       simulationState.registerUsage[i - 1]) }

C6_LoadUse ==
  Started /\ simulationState.stallsEnabled =>
    \A i \in LoadUseConsumers :
       IF simulationState.forwardingEnabled
         THEN /\ simulationState.stalls[i] = 0
              /\ HasEdge(i, i - 1, "MEM",
                         RegName(simulationState.registerUsage[i - 1].rd))
         ELSE /\ simulationState.stalls[i] = 1
              /\ \A k \in 1..Len(simulationState.forwardings[i]) :
                    simulationState.forwardings[i][k].from # i - 1

\* forwarding disabled: instruction 2 uses the load at 1 and also the result
\* of the non-load instruction 0
C6_Witness ==
  /\ Started /\ simulationState.stallsEnabled /\ ~simulationState.forwardingEnabled
  /\ 2 \in LoadUseConsumers
  /\ 0 \in NonLoadProducers(2)
  /\ simulationState.stalls[2] = 1

(***************************************************************************)
(* C7 as stated: with stalls enabled and forwarding disabled, an           *)
(* instruction i with a RAW dependency on a non-load producer gets 2 stall *)
(* cycles if the producer is at distance 1 and 1 stall cycle if it is at   *)
(* distance 2.                                                             *)
(***************************************************************************)
C7_Original ==
  Started /\ simulationState.stallsEnabled /\ ~simulationState.forwardingEnabled =>
    \A i \in Consumers : \A j \in NonLoadProducers(i) :
       /\ i - j = 1 => simulationState.stalls[i] = 2
       /\ i - j = 2 => simulationState.stalls[i] = 1

(***************************************************************************)
(* C7 as amended: with stalls enabled and forwarding disabled, an          *)
(* instruction i with a RAW dependency on a non-load producer within the   *)
(* three preceding instructions gets the stall cycles of the farthest such *)
(* producer: 2 if that producer is at distance 1, and 1 if it is at        *)
(* distance 2 or 3.  A producer more than three instructions back is not   *)
(* examined: an instruction that reads no result of its three predecessors *)
(* gets no stall cycle.                                                    *)
(***************************************************************************)
FarthestNonLoadProducer(i) ==
  CHOOSE j \in NonLoadProducers(i) : \A other \in NonLoadProducers(i) : j <= other

\* the instructions within the lookback whose result instruction i reads
C7_ExaminedProducers(i) ==
  { j \in DOMAIN simulationState.registerUsage :
      /\ j < i /\ i - j <= 3
      /\ ReadsResultOf(simulationState.registerUsage[i],
                       simulationState.registerUsage[j]) }

C7_FarthestProducer ==
  Started /\ simulationState.stallsEnabled /\ ~simulationState.forwardingEnabled =>
    \A i \in Consumers :
       /\ NonLoadProducers(i) # {} =>
            simulationState.stalls[i] =
              IF i - FarthestNonLoadProducer(i) = 1 THEN 2 ELSE 1
       /\ C7_ExaminedProducers(i) = {} => simulationState.stalls[i] = 0

\* instructions 3 and 4 both read the result of the non-load instruction 0
\* and of no other: instruction 3, three instructions on, gets 1 stall
\* cycle; instruction 4, four instructions on, gets none
C7_Witness ==
  /\ Started /\ simulationState.stallsEnabled /\ ~simulationState.forwardingEnabled
  /\ {3, 4} \subseteq Consumers
  /\ NonLoadProducers(3) = {0}
  /\ simulationState.stalls[3] = 1
  /\ ReadsResultOf(simulationState.registerUsage[4], simulationState.registerUsage[0])
  /\ C7_ExaminedProducers(4) = {}
  /\ simulationState.stalls[4] = 0

(***************************************************************************)
(* C8: with stalls and forwarding enabled, every stall-table entry is 0,   *)
(* maxCycles = N + 4, and an instruction i with a RAW dependency on a      *)
(* non-load producer j has an edge from j to i into EX, out of EX when     *)
(* i - j = 1 and out of MEM when i - j = 2, tagged with the producer's     *)
(* destination register.                                                   *)
(***************************************************************************)
C8_Forwarding ==
  Started /\ simulationState.stallsEnabled /\ simulationState.forwardingEnabled =>
    /\ \A i \in DOMAIN simulationState.stalls : simulationState.stalls[i] = 0
    /\ simulationState.maxCycles = SubmittedCount + 4
    /\ \A i \in Consumers : \A j \in NonLoadProducers(i) :
          /\ i - j = 1 =>
               HasEdge(i, j, "EX", RegName(simulationState.registerUsage[j].rd))
          /\ i - j = 2 =>
               HasEdge(i, j, "MEM", RegName(simulationState.registerUsage[j].rd))

\* instruction 2 is forwarded to from instruction 1 and from instruction 0
C8_Witness ==
  /\ Started /\ simulationState.stallsEnabled /\ simulationState.forwardingEnabled
  /\ 2 \in Consumers
  /\ NonLoadProducers(2) = {0, 1}
  /\ Len(simulationState.forwardings[2]) = 2

(***************************************************************************)
(* C9: an instruction whose final hazard record is WAW has stall cost 0,   *)
(* in the stallCycles field of the record and in the stall table.          *)
(***************************************************************************)
C9_WawCostsNothing ==
  Started =>
    \A i \in DOMAIN simulationState.hazards :
       simulationState.hazards[i].type = "WAW" =>
         /\ simulationState.hazards[i].stallCycles = 0
         /\ simulationState.stalls[i] = 0

(***************************************************************************)
(* C10: with stalls disabled every instruction has a NONE record with      *)
(* stallCycles 0 and canForward false, no forwarding edge and a stall      *)
(* entry of 0, whatever forwardingEnabled is, and the three tables have    *)
(* one entry per instruction index.                                        *)
(***************************************************************************)
C10_StallsDisabled ==
  Started /\ ~simulationState.stallsEnabled =>
    LET indices == 0..(Len(simulationState.instructions) - 1)
    IN  /\ DOMAIN simulationState.hazards = indices
        /\ DOMAIN simulationState.forwardings = indices
        /\ DOMAIN simulationState.stalls = indices
        /\ \A i \in indices :
              /\ simulationState.hazards[i] =
                   [type |-> "NONE", canForward |-> FALSE, stallCycles |-> 0]
              /\ simulationState.forwardings[i] = << >>
              /\ simulationState.stalls[i] = 0

\* stalls disabled, forwarding enabled, and a program with RAW dependencies
C10_Witness ==
  /\ Started /\ ~simulationState.stallsEnabled /\ simulationState.forwardingEnabled
  /\ 2 \in Consumers /\ NonLoadProducers(2) = {0, 1}
  /\ Len(simulationState.instructions) = 3

(***************************************************************************)
(* What the claims about one tick share.                                   *)
(***************************************************************************)
\* the step is a tick that computes the stages anew: the snapshot is running,
\* not finished, and no stall is pending
ComputingTick ==
  /\ RunningTick
  /\ simulationState.currentStallCycles = 0

\* the positions of the window the tick taken from this snapshot puts in a stage
EnteringStage(stageIndex) ==
  { i \in 0..(Len(simulationState.instructions) - 1) :
      StageIndexAt(simulationState.currentCycle + 1, i, simulationState.stalls, i)
        = stageIndex }

\* the registers, memory and PC the tick taken from this snapshot hands to the
\* execution of the instruction at position i: what the instructions before
\* it in the window have left
HandedTo(i) ==
  TickInstructions(
    [stages |-> << >>, stall |-> simulationState.currentStallCycles,
     registers |-> simulationState.registers,
     memory |-> simulationState.memory, PC |-> simulationState.PC],
    [simulationState EXCEPT !.instructions = SubSeq(@, 1, i)],
    simulationState.currentCycle + 1, 0)

\* the decoded instruction at position i of the window
DecodedAt(i) == translateInstructionToMIPS(simulationState.instructions[i + 1])

(***************************************************************************)
(* C11: when beq (bne) executes in EX with program counter PC and its two  *)
(* register operands are equal (different), the PC after the tick is       *)
(* PC + 1 + offset; otherwise the execution yields no PC and the PC after  *)
(* the tick is the PC before it.                                           *)
(***************************************************************************)
C11_Branch ==
  [][ComputingTick =>
       \A i \in EnteringStage(2) :
          LET d == DecodedAt(i)
              handed == HandedTo(i)
              holds == IF d.op = "beq"
                         THEN handed.registers[d.rs] = handed.registers[d.rt]
                         ELSE handed.registers[d.rs] # handed.registers[d.rt]
          IN  d.op \in {"beq", "bne"} =>
                IF holds
                  THEN simulationState'.PC = handed.PC + 1 + d.immediate
                  ELSE simulationState'.PC = simulationState.PC]_vars

\* addi $t0,$zero,5; beq $t0,$zero,1; bne $t0,$zero,1: the beq was not taken
\* and left the PC at 0, the bne was taken and set it to 0 + 1 + 1
C11_Witness ==
  /\ DOMAIN simulationState.registerUsage = {0, 1, 2}
  /\ simulationState.registerUsage[1].opcode = 4
  /\ simulationState.registerUsage[2].opcode = 5
  /\ simulationState.registers["$t0"] = 5
  /\ simulationState.PC = 2

(***************************************************************************)
(* C12: when j executes in EX the PC after the tick is target >> 2 and no  *)
(* register changes; when jal executes in EX with program counter PC the   *)
(* PC after the tick is the same target >> 2 and $ra holds PC + 2, no      *)
(* other register changing.                                                *)
(***************************************************************************)
C12_Jump ==
  [][ComputingTick =>
       \A i \in EnteringStage(2) :
          LET d == DecodedAt(i)
              handed == HandedTo(i)
          IN  /\ d.op = "j" =>
                   /\ simulationState'.PC = d.target \div 4
                   /\ simulationState'.registers = handed.registers
              /\ d.op = "jal" =>
                   /\ simulationState'.PC = d.target \div 4
                   /\ simulationState'.registers =
                        [handed.registers EXCEPT !["$ra"] = handed.PC + 2]]_vars

\* jal 8 submitted first has executed with PC 0: $ra = 2 and the PC is 8 >> 2
C12_Witness ==
  /\ Started
  /\ simulationState.registerUsage[0].opcode = 3
  /\ simulationState.registers["$ra"] = 2
  /\ simulationState.PC = 2

(***************************************************************************)
(* C13: from any reachable snapshot, reset() and start(empty sequence)     *)
(* produce the same snapshot: no instructions, cycle 0, maxCycles 0, not   *)
(* running, not finished, empty stage map and tables, pending stall 0,     *)
(* registers and memory all zero, PC 0, and the two toggles as they were   *)
(* just before the call.                                                   *)
(***************************************************************************)
C13_ResetAndEmptyStart ==
  [][(resetSimulation \/ startSimulation(<< >>)) =>
       simulationState' =
         [instructions |-> << >>, currentCycle |-> 0, maxCycles |-> 0,
          isRunning |-> FALSE, stageCount |-> 5, instructionStages |-> << >>,
          isFinished |-> FALSE, registerUsage |-> << >>, hazards |-> << >>,
          forwardings |-> << >>, stalls |-> << >>, currentStallCycles |-> 0,
          forwardingEnabled |-> simulationState.forwardingEnabled,
          stallsEnabled |-> simulationState.stallsEnabled,
          registers |-> [name \in RegisterNames |-> 0],
          memory |-> [address \in 0..31 |-> 0],
          PC |-> 0]]_vars

\* the idle snapshot with both toggles switched off, which the initial
\* snapshot does not have
C13_Witness ==
  /\ simulationState.currentCycle = 0
  /\ simulationState.instructions = << >>
  /\ ~simulationState.isRunning
  /\ ~simulationState.forwardingEnabled
  /\ ~simulationState.stallsEnabled
  /\ rendered = Toggles(initialState)

(***************************************************************************)
(* C14: resume() changes the snapshot only when it is not running, its     *)
(* current cycle is > 0 and it is not finished, and then only the running  *)
(* flag, to true; in every other snapshot it returns the snapshot          *)
(* unchanged.  pause() changes only the running flag, to false, and only   *)
(* when the snapshot is running.                                           *)
(***************************************************************************)
C14_PauseResume ==
  /\ [][resumeSimulation =>
          IF /\ ~simulationState.isRunning
             /\ simulationState.currentCycle > 0
             /\ ~simulationState.isFinished
            THEN simulationState' = [simulationState EXCEPT !.isRunning = TRUE]
            ELSE simulationState' = simulationState]_vars
  /\ [][pauseSimulation =>
          IF simulationState.isRunning
            THEN simulationState' = [simulationState EXCEPT !.isRunning = FALSE]
            ELSE simulationState' = simulationState]_vars

\* a run paused before its end, which resume sets running again
C14_Witness ==
  /\ ~simulationState.isRunning
  /\ simulationState.currentCycle > 1
  /\ ~simulationState.isFinished
  /\ simulationState.currentStallCycles > 0

(***************************************************************************)
(* C15: for every interleaving of configure and start calls, a start of a  *)
(* program computes the hazard, forwarding and stall tables with the       *)
(* toggles configured most recently, and the snapshot it installs holds    *)
(* those two toggles.                                                      *)
(***************************************************************************)
C15_StartUsesConfigured ==
  [][Start /\ Len(simulationState'.instructions) > 0 =>
       simulationState' =
         StartedState(simulationState'.instructions,
                      simulationState.forwardingEnabled,
                      simulationState.stallsEnabled)]_vars

(***************************************************************************)
(* C16: step applied to a snapshot that is not running or is finished      *)
(* returns it unchanged in every field; so a finished snapshot is left     *)
(* unchanged by step, pause and resume, stops being finished only by a     *)
(* start or a reset, and a tick delivered while paused changes nothing.    *)
(***************************************************************************)
C16_HaltedStep ==
  /\ [][(/\ ~simulationState.isRunning \/ simulationState.isFinished
         /\ simulationState' = calculateNextState(simulationState))
          => simulationState' = simulationState]_vars
  /\ [][(/\ simulationState.isFinished
         /\ Tick \/ pauseSimulation \/ resumeSimulation)
          => simulationState' = simulationState]_vars
  /\ [][(simulationState.isFinished /\ ~simulationState'.isFinished)
          => \/ resetSimulation
             \/ startSimulation(simulationState'.instructions)]_vars

\* a run of a program that has finished after writing a register
C16_Witness ==
  /\ simulationState.isFinished
  /\ ~simulationState.isRunning
  /\ simulationState.currentCycle > 0
  /\ simulationState.registers["$t0"] = 5

(***************************************************************************)
(* C17: between one start and the next start or reset, the hazard table,   *)
(* the forwarding table and the stall table are not changed by step        *)
(* (stall ticks and redirecting ticks included), pause, resume or          *)
(* configure.  (A step on a snapshot that is not running or is finished    *)
(* changes nothing at all, C16.)                                           *)
(***************************************************************************)
C17_TablesFrozen ==
  [][(RunningTick \/ pauseSimulation \/ resumeSimulation \/ Configure) =>
       /\ simulationState'.hazards = simulationState.hazards
       /\ simulationState'.forwardings = simulationState.forwardings
       /\ simulationState'.stalls = simulationState.stalls]_vars

\* a run whose stall table still holds 2 for instruction 1 after stalls were
\* switched off and the clock went on
C17_Witness ==
  /\ Started
  /\ simulationState.currentCycle > 2
  /\ ~simulationState.stallsEnabled
  /\ 1 \in DOMAIN simulationState.stalls
  /\ simulationState.stalls[1] = 2

(***************************************************************************)
(* C18: when a load or store (lw, sw, lbu, lhu, ll, sb, sh, sc) executes   *)
(* in MEM and its effective address, base register value + offset taken as *)
(* unsigned, is outside 0..31, the call changes no memory word and no      *)
(* register (sc does not write its success indicator), and the tick        *)
(* completes as any other: the simulation goes on.                         *)
(***************************************************************************)
C18_AddressOutOfRange ==
  [][ComputingTick =>
       \A i \in EnteringStage(3) :
          LET d == DecodedAt(i)
              handed == HandedTo(i)
              left == HandedTo(i + 1)
              sum == handed.registers[d.rs] + d.immediate
          IN  (/\ d.op \in {"lw", "sw", "lbu", "lhu", "ll", "sb", "sh", "sc"}
               /\ ~(sum >= 0 /\ sum <= 31))
                => /\ left.memory = handed.memory
                   /\ left.registers = handed.registers
                   /\ simulationState'.currentCycle \in
                        {simulationState.currentCycle + 1, StatedCompletionCycle}
                   /\ simulationState'.isRunning = ~simulationState'.isFinished
                   /\ simulationState'.isFinished
                        <=> simulationState.currentCycle + 1 > StatedCompletionCycle
                   /\ simulationState'.instructionStages[i] = 3]_vars

\* addi $t0,$zero,5 and then sc $t0,32($zero) in MEM: $t0 still holds 5 and
\* memory is untouched
C18_Witness ==
  /\ DOMAIN simulationState.registerUsage = {0, 1}
  /\ simulationState.registerUsage[0].opcode = 8
  /\ simulationState.registerUsage[1].opcode = 56
  /\ simulationState.instructionStages[1] = 3
  /\ simulationState.registers["$t0"] = 5
  /\ simulationState.memory = initialMemory

(***************************************************************************)
(* C19: in a run with no program-counter redirection every instruction     *)
(* occupies the stages 0, 1, 2, 3, 4 in that order without skipping any:   *)
(* across a tick its stage stays the same or increases by exactly 1 until  *)
(* it retires after stage 4, also when the stall table has non-zero        *)
(* entries.                                                                *)
(***************************************************************************)
C19_StageStep(before, after) ==
  \/ after = before
  \/ before = NULL /\ after = 0
  \/ before \in 0..3 /\ after = before + 1
  \/ before = 4 /\ after = NULL

C19_NoStageSkipped ==
  [][(RunningTick /\ WindowIntact /\ WindowIntact') =>
       \A i \in DOMAIN simulationState.instructionStages :
          C19_StageStep(simulationState.instructionStages[i],
                        simulationState'.instructionStages[i])]_vars

(***************************************************************************)
(* C20: a step on a running, unfinished snapshot whose pending stall       *)
(* counter is positive increases the current cycle by 1, decreases the     *)
(* pending stall counter by 1 and leaves every other field unchanged:      *)
(* stage map, registers, memory, PC, instructions, running and finished    *)
(* flags and tables; no instruction is executed in that tick.              *)
(***************************************************************************)
C20_StallTick ==
  [][(simulationState.currentStallCycles > 0 /\ RunningTick) =>
       simulationState' =
         [simulationState EXCEPT
            !.currentCycle = simulationState.currentCycle + 1,
            !.currentStallCycles = simulationState.currentStallCycles - 1]]_vars

\* the first of the two stall ticks instruction 1 injected has been taken
C20_Witness ==
  /\ Started
  /\ simulationState.isRunning
  /\ 1 \in DOMAIN simulationState.stalls
  /\ simulationState.stalls[1] = 2
  /\ simulationState.currentStallCycles = 1
  /\ simulationState.instructionStages[1] = 1
  /\ simulationState.registers["$t0"] = 5

(***************************************************************************)
(* C21: in a run with no program-counter redirection, each instruction k   *)
(* with stall-table entry s_k > 0 sets the pending stall counter to s_k    *)
(* exactly once, in the tick in which it enters stage 1, and that tick is  *)
(* followed by exactly s_k stall ticks; an instruction with s_k = 0        *)
(* injects nothing; so the run spends the sum of the stall table in stall  *)
(* ticks.  The ticks of a run are told apart by the cycle they lead to:    *)
(* instruction k enters stage 1 in the tick to cycle                       *)
(* k + 2 + s_0 + ... + s_(k-1) and in no other, the ticks to the s_k       *)
(* cycles after it are the stall ticks, and the run goes through every     *)
(* cycle up to N + 4 + s_0 + ... + s_(N-1) one tick at a time.             *)
(***************************************************************************)
\* instruction k enters stage 1 in this step
C21_EntersDecode(k) ==
  /\ simulationState'.instructionStages[k] = 1
  /\ simulationState.instructionStages[k] # 1

\* a started run whose window has not been redirected
C21_Intact == Started /\ WindowIntact

\* the stall cycles of the instructions before k
C21_StallsBefore(k) ==
  SumValues([j \in 0..(k - 1) |-> simulationState.stalls[j]])

\* the cycle in which instruction k is decoded
C21_DecodeCycle(k) == k + 2 + C21_StallsBefore(k)

\* the cycles the stall of instruction k takes
C21_StallCyclesOf(k) ==
  (C21_DecodeCycle(k) + 1)..(C21_DecodeCycle(k) + simulationState.stalls[k])

\* the cycles of the run that stall ticks lead to
C21_StallCycles == UNION { C21_StallCyclesOf(k) : k \in DOMAIN simulationState.stalls }

\* the last cycle of the run
C21_LastCycle == SubmittedCount + 4 + SumValues(simulationState.stalls)

C21_StallInjection ==
  \* instruction k enters stage 1 in the tick to its decode cycle and in no
  \* other; that tick leaves s_k pending, and a stall is left pending by no
  \* other computing tick
  /\ [][(C21_Intact /\ ComputingTick /\ WindowIntact') =>
          /\ \A k \in DOMAIN simulationState.stalls :
                /\ C21_EntersDecode(k)
                     <=> simulationState'.currentCycle = C21_DecodeCycle(k)
                /\ C21_EntersDecode(k) =>
                     simulationState'.currentStallCycles = simulationState.stalls[k]
          /\ simulationState'.currentStallCycles > 0 =>
               \E k \in DOMAIN simulationState.stalls : C21_EntersDecode(k)]_vars
  \* the ticks that follow it are stall ticks for exactly the s_k cycles after
  \* the decode cycle: a tick is a stall tick if and only if it leads to one
  \* of these cycles
  /\ [][(C21_Intact /\ RunningTick) =>
          (simulationState.currentStallCycles > 0
             <=> (simulationState.currentCycle + 1) \in C21_StallCycles)]_vars
  \* a stall tick takes 1 off the pending stall and holds the stages
  /\ [][(simulationState.currentStallCycles > 0 /\ RunningTick) =>
          /\ simulationState'.currentStallCycles
               = simulationState.currentStallCycles - 1
          /\ simulationState'.instructionStages
               = simulationState.instructionStages]_vars
  \* nothing but a tick of the running clock touches the pending stall
  /\ [][(simulationState'.currentStallCycles # simulationState.currentStallCycles)
          => RunningTick]_vars
  \* the run goes through the cycles one tick at a time, up to the last cycle
  /\ [][(C21_Intact /\ RunningTick) =>
          IF simulationState'.isFinished
            THEN simulationState.currentCycle = C21_LastCycle
            ELSE simulationState'.currentCycle = simulationState.currentCycle + 1]_vars
  \* the stall cycles are s_0 + ... + s_(N-1) cycles of the run
  /\ [](C21_Intact =>
          /\ C21_StallCycles \subseteq 2..C21_LastCycle
          /\ Cardinality(C21_StallCycles) = SumValues(simulationState.stalls))

\* addi $t0,$zero,5; add $t1,$t0,$t0; add $t0,$t1,$t1; add $t1,$t0,$t0: the
\* first two adds injected 2 stall cycles each, and the stall tick of the last
\* add, decoded in cycle 9 after the 4 stall cycles before it, is served
C21_Witness ==
  /\ C21_Intact
  /\ DOMAIN simulationState.stalls = 0..3
  /\ simulationState.stalls[1] = 2
  /\ simulationState.stalls[2] = 2
  /\ simulationState.stalls[3] = 1
  /\ simulationState.instructionStages[3] = 1
  /\ simulationState.currentStallCycles = 0
  /\ simulationState.currentCycle = 10

C23_WindowIsSuffix ==
  (Started /\ simulationState.PC \in 0..SubmittedCount) =>
    /\ Len(simulationState.instructions) = SubmittedCount - simulationState.PC
    /\ \A i \in 0..(Len(simulationState.instructions) - 1) :
          (simulationState.PC + i) \in DOMAIN simulationState.registerUsage
            => parseInstruction(simulationState.instructions[i + 1])
                 = simulationState.registerUsage[simulationState.PC + i]

(***************************************************************************)
(* C24: whenever a started simulation becomes finished, its current cycle  *)
(* equals the snapshot's maxCycles and running is false in that snapshot,  *)
(* for every program, runs with a redirected program counter included.     *)
(***************************************************************************)
C24_FinishedAtMaxCycles ==
  (Started /\ simulationState.isFinished) =>
    /\ simulationState.currentCycle = simulationState.maxCycles
    /\ ~simulationState.isRunning

(***************************************************************************)
(* C25: parseInstruction sets rd = rt for every immediate opcode the claim *)
(* names (addi 8, addiu 9, slti 10, sltiu 11, andi 12, ori 13, lui 15),    *)
(* so that, with stalls enabled, an instruction at distance 1..3 that      *)
(* reads that register as rs is classified RAW by detectHazards.           *)
(***************************************************************************)
C25_NamedOpcodes == {8, 9, 10, 11, 12, 13, 15}

C25_ImmediateDestination ==
  Started =>
    \A j \in DOMAIN simulationState.registerUsage :
       LET producer == simulationState.registerUsage[j]
       IN  producer.opcode \in C25_NamedOpcodes =>
             /\ producer.rd = producer.rt
             /\ simulationState.stallsEnabled /\ producer.rt # 0 =>
                  \A i \in DOMAIN simulationState.registerUsage :
                     /\ i - j \in 1..Lookback
                     /\ simulationState.registerUsage[i].rs = producer.rt
                     => simulationState.hazards[i].type = "RAW"

\* the same statement for the opcodes of line 192 only
C25_ListedOpcodes ==
  Started =>
    \A j \in DOMAIN simulationState.registerUsage :
       LET producer == simulationState.registerUsage[j]
       IN  producer.opcode \in ImmediateOpcodes =>
             /\ producer.rd = producer.rt
             /\ simulationState.stallsEnabled /\ producer.rt # 0 =>
                  \A i \in DOMAIN simulationState.registerUsage :
                     /\ i - j \in 1..Lookback
                     /\ simulationState.registerUsage[i].rs = producer.rt
                     => simulationState.hazards[i].type = "RAW"

(***************************************************************************)
(* C26: for every program without a branch or jump whose stall table is    *)
(* all zero, the registers and the memory of the finished snapshot are     *)
(* those of executing the instructions one at a time in program order,     *)
(* each applying its EX effect and then its MEM effect, from all-zero      *)
(* registers and memory.                                                   *)
(***************************************************************************)
RECURSIVE C26_Sequential(_, _, _, _)
\* the program executed one instruction at a time from position index
C26_Sequential(instructions, index, registers, memory) ==
  IF index > Len(instructions) THEN [registers |-> registers, memory |-> memory]
  ELSE LET ex  == executeMIPSInstruction(instructions[index], registers, memory,
                                         index - 1, "EX", << >>)
           mem == executeMIPSInstruction(instructions[index], ex.registers,
                                         ex.memory, index - 1, "MEM", << >>)
       IN  C26_Sequential(instructions, index + 1, mem.registers, mem.memory)

C26_ControlFree ==
  \A i \in 1..Len(simulationState.instructions) :
     translateInstructionToMIPS(simulationState.instructions[i]).op
        \notin {"beq", "bne", "j", "jal", "jr"}

C26_StallFree ==
  \A i \in DOMAIN simulationState.stalls : simulationState.stalls[i] = 0

C26_SequentialResult ==
  C26_Sequential(simulationState.instructions, 1,
                 [name \in RegisterNames |-> 0], [address \in 0..(MemoryWords - 1) |-> 0])

C26_SequentialEquivalence ==
  (Started /\ simulationState.isFinished /\ WindowIntact
     /\ C26_ControlFree /\ C26_StallFree) =>
    /\ simulationState.registers = C26_SequentialResult.registers
    /\ simulationState.memory = C26_SequentialResult.memory

\* addi $t0, $zero, 5; lw $t0, 0($zero); addi $t1, $t0, 5 has finished: the
\* load in MEM and the second addi in EX shared the tick of cycle 5
C26_Witness ==
  /\ simulationState.isFinished
  /\ C26_StallFree
  /\ simulationState.instructions =
       << <<2,0,0,8,0,0,0,5>>, <<8,12,0,8,0,0,0,0>>, <<2,1,0,9,0,0,0,5>> >>
  /\ simulationState.registers["$t0"] = 0
  /\ simulationState.registers["$t1"] = 5

(***************************************************************************)
(* C27: across every step of a started simulation the current cycle never  *)
(* decreases: a tick on a running, unfinished snapshot yields a cycle      *)
(* greater than or equal to the previous one, and the cycle never exceeds  *)
(* maxCycles, ticks after a redirection of the program counter included.   *)
(***************************************************************************)
C27_CycleBounded ==
  Started => simulationState.currentCycle <= simulationState.maxCycles

C27_CycleMonotonic ==
  /\ [][RunningTick =>
          simulationState'.currentCycle >= simulationState.currentCycle]_vars
  /\ []C27_CycleBounded

(***************************************************************************)
(* C28: every started simulation terminates: if ticks keep being delivered *)
(* and no pause, start or reset intervenes, the snapshot reaches           *)
(* isFinished after at most maxCycles ticks from the start, for every      *)
(* program, backward branches or jumps and stalls included.  The cycle is  *)
(* 1 at the start and every tick that leaves the run unfinished adds one,  *)
(* so an unfinished snapshot has seen currentCycle - 1 ticks.              *)
(***************************************************************************)
C28_Unfinished == Started /\ ~simulationState.isFinished

C28_TickCounted ==
  RunningTick /\ ~simulationState'.isFinished =>
    simulationState'.currentCycle = simulationState.currentCycle + 1

C28_WithinMaxCycles ==
  C28_Unfinished =>
    /\ simulationState.isRunning
    /\ simulationState.currentCycle \in 1..simulationState.maxCycles

C28_Terminates ==
  /\ C28_Unfinished ~> simulationState.isFinished
  /\ [][C28_TickCounted]_vars
  /\ []C28_WithinMaxCycles

\* a run with a pending stall that a backward branch redirected has finished
C28_Witness ==
  /\ Started /\ simulationState.isFinished
  /\ simulationState.PC < 0
  /\ simulationState.maxCycles > SubmittedCount + 4

(***************************************************************************)
(* C29: when the instruction at index k of the submitted program executes  *)
(* in EX, the program counter passed to the execution unit equals k, so a  *)
(* taken beq/bne at index k redirects to k + 1 + offset and a jal at index *)
(* k links k + 2.  Stated for the ticks before any redirection, where the  *)
(* window is the submitted program and position k is index k.              *)
(***************************************************************************)
C29_Taken(k) ==
  LET d == DecodedAt(k)
      handed == HandedTo(k)
  IN  \/ d.op = "beq" /\ handed.registers[d.rs] = handed.registers[d.rt]
      \/ d.op = "bne" /\ handed.registers[d.rs] # handed.registers[d.rt]

C29_PcIsIndex ==
  [][ComputingTick /\ WindowIntact =>
       \A k \in EnteringStage(2) :
          /\ HandedTo(k).PC = k
          /\ C29_Taken(k) =>
               simulationState'.PC = k + 1 + DecodedAt(k).immediate
          /\ DecodedAt(k).op = "jal" =>
               simulationState'.registers["$ra"] = k + 2]_vars

\* the same statement for the instruction at index 0 only
C29_FirstInstruction ==
  [][ComputingTick /\ WindowIntact =>
       \A k \in EnteringStage(2) \cap {0} :
          /\ HandedTo(k).PC = k
          /\ C29_Taken(k) =>
               simulationState'.PC = k + 1 + DecodedAt(k).immediate
          /\ DecodedAt(k).op = "jal" =>
               simulationState'.registers["$ra"] = k + 2]_vars

(***************************************************************************)
(* C30: after a tick in which a branch or jump redirects the program       *)
(* counter to a target index t inside the program, the instruction at t is *)
(* processed as newly fetched: if ticks keep being delivered it later      *)
(* occupies EX in a tick that executes it, before the simulation finishes. *)
(* The snapshot a redirecting tick returns is the only one whose stage map *)
(* is keyed from the new PC (line 781), and the instruction at t is at     *)
(* position 0 of its window.                                               *)
(***************************************************************************)
C30_JustRedirected ==
  /\ Started /\ ~simulationState.isFinished
  /\ simulationState.PC \in 1..(SubmittedCount - 1)
  /\ Len(simulationState.instructions) = SubmittedCount - simulationState.PC
  /\ parseInstruction(simulationState.instructions[1])
       = simulationState.registerUsage[simulationState.PC]
  /\ DOMAIN simulationState.instructionStages =
       { simulationState.PC + i : i \in 0..(Len(simulationState.instructions) - 1) }

\* the next tick executes the instruction at position 0 of the window in EX
C30_TargetInEX ==
  /\ ~Halted(simulationState)
  /\ simulationState.currentStallCycles = 0
  /\ 0 \in EnteringStage(2)

C30_TargetExecutes == C30_JustRedirected ~> C30_TargetInEX

=============================================================================
